---- MODULE Spec2Model ----
(***************************************************************************)
(* Model of ypo.py: the natural-language-to-SQL page.  One script run is   *)
(* the schema bootstrap (lines 31-45) followed, when the question is not   *)
(* empty, by the generate / extract / gate / execute pipeline (94-121).    *)
(* Python strings are sequences of one-character strings.                  *)
(***************************************************************************)
EXTENDS Integers, Sequences, FiniteSets, TLC

VARIABLES
    pc,                 \* position of the running script
    cache,              \* st.cache_data entry of get_schema_info
    tables_df,          \* TABLE_NAME column of the tables query
    columns_df,         \* rows of the columns query
    available_objects,
    schema_description,
    idx,                \* tables already visited by the loop of line 37
    user_query,
    prompt,
    raw_response,
    sql_text,
    forbidden,
    executed,           \* statements handed to conn.query at line 106
    messages,           \* st.error calls of this run
    rendered,           \* the result table was displayed (line 109)
    trace               \* stages of the submission visited so far

vars == << pc, cache, tables_df, columns_df, available_objects,
           schema_description, idx, user_query, prompt, raw_response,
           sql_text, forbidden, executed, messages, rendered, trace >>

(***************************************************************************)
(* Bounds of the model.                                                    *)
(***************************************************************************)
MaxChunks == 5
MaxStmtChunks == 3
MaxTextChunks == 5

(***************************************************************************)
(* Characters and the str methods the script uses.                         *)
(***************************************************************************)
LowerCase == << "a","b","c","d","e","f","g","h","i","j","k","l","m",
                "n","o","p","q","r","s","t","u","v","w","x","y","z" >>

UpperCase == << "A","B","C","D","E","F","G","H","I","J","K","L","M",
                "N","O","P","Q","R","S","T","U","V","W","X","Y","Z" >>

Whitespace == { " ", "\t", "\n", "\r", "\f" }

UpperChar(c) ==
    IF \E i \in 1..26 : LowerCase[i] = c
      THEN UpperCase[CHOOSE i \in 1..26 : LowerCase[i] = c]
      ELSE c

upper(s) == [i \in 1..Len(s) |-> UpperChar(s[i])]

\* needle in hay
Contains(hay, needle) ==
    \E i \in 0..(Len(hay) - Len(needle)) :
        \A j \in 1..Len(needle) : hay[i + j] = needle[j]

RECURSIVE lstrip(_)
lstrip(s) ==
    IF s # << >> /\ Head(s) \in Whitespace THEN lstrip(Tail(s)) ELSE s

RECURSIVE rstrip(_)
rstrip(s) ==
    IF s # << >> /\ s[Len(s)] \in Whitespace THEN rstrip(SubSeq(s, 1, Len(s) - 1)) ELSE s

strip(s) == rstrip(lstrip(s))

\* s.replace(old, new) for a one-character old
RECURSIVE replace(_, _, _)
replace(s, old, new) ==
    IF s = << >> THEN << >>
    ELSE (IF Head(s) = old THEN new ELSE << Head(s) >>)
         \o replace(Tail(s), old, new)

\* sep.join(parts)
RECURSIVE join(_, _)
join(sep, parts) ==
    IF parts = << >> THEN << >>
    ELSE IF Len(parts) = 1 THEN parts[1]
    ELSE parts[1] \o sep \o join(sep, Tail(parts))

RECURSIVE SelectRows(_, _)
SelectRows(rows, table) ==
    IF rows = << >> THEN << >>
    ELSE (IF Head(rows).TABLE_NAME = table THEN << Head(rows) >> ELSE << >>)
         \o SelectRows(Tail(rows), table)

(***************************************************************************)
(* The regular expressions of extract_sql, matched as re.search matches    *)
(* them: leftmost start, greedy and lazy quantifiers in backtracking order.*)
(***************************************************************************)
\* the grave accent U+0060, written by name (the character cannot be written here)
Backtick == "GRAVE"

LitAt(r, i, lit) ==
    /\ i >= 1
    /\ i + Len(lit) - 1 <= Len(r)
    /\ \A j \in 1..Len(lit) : r[i + j - 1] = lit[j]

\* re.IGNORECASE literal
LitAtIgnoreCase(r, i, lit) ==
    /\ i >= 1
    /\ i + Len(lit) - 1 <= Len(r)
    /\ \A j \in 1..Len(lit) : UpperChar(r[i + j - 1]) = UpperChar(lit[j])

Fence == << Backtick, Backtick, Backtick >>

\* end of the greedy run of \s starting at i: first index >= i not in \s
RECURSIVE SkipSpace(_, _)
SkipSpace(r, i) ==
    IF i <= Len(r) /\ r[i] \in Whitespace THEN SkipSpace(r, i + 1) ELSE i

\* lazy (.*?) and the closing fence from position k: the first fence at or
\* after k, 0 if there is none
RECURSIVE ClosingFence(_, _)
ClosingFence(r, k) ==
    IF k + 2 > Len(r) THEN 0
    ELSE IF LitAt(r, k, Fence) THEN k
    ELSE ClosingFence(r, k + 1)

\* content starts tried after (?:sql)? ended at j: \s* greedy, then giving back
RECURSIVE TryStarts(_, _, _)
TryStarts(r, k, j) ==
    IF k < j THEN << >>
    ELSE IF ClosingFence(r, k) # 0 THEN << k, ClosingFence(r, k) >>
    ELSE TryStarts(r, k - 1, j)

\* the fence pattern of line 63 attempted at i: <<start, close>> of group 1, or <<>>
FenceMatchAt(r, i) ==
    IF ~LitAt(r, i, Fence) THEN << >>
    ELSE LET tagged == IF LitAtIgnoreCase(r, i + 3, << "s", "q", "l" >>)
                         THEN TryStarts(r, SkipSpace(r, i + 6), i + 6)
                         ELSE << >>
         IN  IF tagged # << >> THEN tagged
             ELSE TryStarts(r, SkipSpace(r, i + 3), i + 3)

\* re.search of line 63 (fence, optional sql tag, \s*, lazy group, fence)
\* from start position i on, leftmost first: group 1
RECURSIVE FenceSearchFrom(_, _)
FenceSearchFrom(r, i) ==
    IF i > Len(r) THEN [found |-> FALSE, group |-> << >>]
    ELSE IF FenceMatchAt(r, i) # << >>
      THEN [found |-> TRUE,
            group |-> SubSeq(r, FenceMatchAt(r, i)[1], FenceMatchAt(r, i)[2] - 1)]
      ELSE FenceSearchFrom(r, i + 1)

FenceSearch(r) == FenceSearchFrom(r, 1)

\* \s*$ at position p (without re.MULTILINE)
TailMatches(r, p) == \A q \in p..Len(r) : r[q] \in Whitespace

\* lazy .*? from e, then ;? and \s*$: the last index of group 1
RECURSIVE LazyEnd(_, _)
LazyEnd(r, e) ==
    IF e <= Len(r) /\ r[e] = ";" /\ TailMatches(r, e + 1) THEN e
    ELSE IF TailMatches(r, e) THEN e - 1
    ELSE LazyEnd(r, e + 1)

\* (SELECT\s+.*?;?)\s*$ attempted at i: last index of group 1, or 0
SelectMatchAt(r, i) ==
    IF LitAtIgnoreCase(r, i, << "S", "E", "L", "E", "C", "T" >>)
       /\ i + 6 <= Len(r) /\ r[i + 6] \in Whitespace
      THEN LazyEnd(r, SkipSpace(r, i + 6))
      ELSE 0

\* re.search(r"(SELECT\s+.*?;?)\s*$", response, re.DOTALL | re.IGNORECASE)
\* from start position i on, leftmost first: group 1
RECURSIVE SelectSearchFrom(_, _)
SelectSearchFrom(r, i) ==
    IF i > Len(r) THEN [found |-> FALSE, group |-> << >>]
    ELSE IF SelectMatchAt(r, i) # 0
      THEN [found |-> TRUE, group |-> SubSeq(r, i, SelectMatchAt(r, i))]
      ELSE SelectSearchFrom(r, i + 1)

\* the pattern matched with re.match: at the start of the text only
SelectSearchAtStart(r) ==
    IF SelectMatchAt(r, 1) # 0
      THEN [found |-> TRUE, group |-> SubSeq(r, 1, SelectMatchAt(r, 1))]
      ELSE [found |-> FALSE, group |-> << >>]

SelectSearch(r) == SelectSearchFrom(r, 1)

\* the two searches in the other order
extract_sql_select_first(response) ==
    IF SelectSearch(response).found THEN strip(SelectSearch(response).group)
    ELSE IF FenceSearch(response).found THEN strip(FenceSearch(response).group)
    ELSE strip(response)

\* the fallback without strip()
extract_sql_raw_fallback(response) ==
    IF FenceSearch(response).found THEN strip(FenceSearch(response).group)
    ELSE IF SelectSearch(response).found THEN strip(SelectSearch(response).group)
    ELSE response

extract_sql(response) ==
    IF FenceSearch(response).found THEN strip(FenceSearch(response).group)
    ELSE IF SelectSearch(response).found THEN strip(SelectSearch(response).group)
    ELSE strip(response)

(***************************************************************************)
(* The safety check of lines 101-102.                                      *)
(***************************************************************************)
ForbiddenTokens ==
    << << "I","N","S","E","R","T" >>,
       << "U","P","D","A","T","E" >>,
       << "D","E","L","E","T","E" >>,
       << "D","R","O","P" >>,
       << "A","L","T","E","R" >>,
       << "C","R","E","A","T","E"," " >> >>

\* the check without upper()
IsForbiddenCaseSensitive(sql) ==
    \E x \in 1..Len(ForbiddenTokens) : Contains(sql, ForbiddenTokens[x])

IsForbidden(sql) ==
    LET upper_sql == upper(sql)
    IN  \E x \in 1..Len(ForbiddenTokens) : Contains(upper_sql, ForbiddenTokens[x])

(***************************************************************************)
(* The prompt of generate_sql: the fixed instructions around the two       *)
(* escaped texts.                                                          *)
(***************************************************************************)
Quote == "'"

\* no escaping
EscapeNothing(s) == s

Escape(s) == replace(s, Quote, << Quote, Quote >>)

\* the prompt of lines 80-87, as its four segments: instruction, escaped schema,
\* instruction, escaped request
BuildPromptText(nl_query, schema_desc) ==
    LET escaped_query == Escape(nl_query)
        escaped_schema == Escape(schema_desc)
    IN  << << "You are a SQL generator. Database schema (table: columns):" >>,
           escaped_schema,
           << "Only SELECT queries allowed. Request: " >>,
           escaped_query >>

(***************************************************************************)
(* The schema description of lines 36-40.                                  *)
(***************************************************************************)
ColumnText(row) ==
    row.COLUMN_NAME \o << " ", "(" >> \o row.DATA_TYPE \o << ")" >>

SchemaLine(table, columns) ==
    LET table_cols == SelectRows(columns, table)
        cols_str == join(<< ",", " " >>,
                         [i \in 1..Len(table_cols) |-> ColumnText(table_cols[i])])
    IN  << "\n", "-", " " >> \o table \o << ":", " " >> \o cols_str

(***************************************************************************)
(* What the collaborators may return: warehouse catalogs, questions typed  *)
(* by the user, completions of the hosted model.                           *)
(***************************************************************************)
Row(t, c, d) == [TABLE_NAME |-> t, COLUMN_NAME |-> c, DATA_TYPE |-> d]

Catalogs ==
    { [tables |-> << >>, columns |-> << >>],
      [tables |-> << << "T" >> >>,
       columns |-> << Row(<< "T" >>, << "A" >>, << "N" >>) >>],
      [tables |-> << << "T" >>, << "U" >> >>,
       columns |-> << Row(<< "T" >>, << "A" >>, << "N" >>),
                      Row(<< "T" >>, << "O", "'", "K" >>, << "S" >>),
                      Row(<< "U" >>, << "B" >>, << "N" >>) >>] }

Questions == { << >>, << "Q" >>, << "'", "'", "a", "'" >> }

\* the value of a NULL completion, which is no string
None == << "None" >>

kwSELECT == << "S", "E", "L", "E", "C", "T" >>
kwCREATE == << "C", "R", "E", "A", "T", "E" >>
kwDROP == << "D", "R", "O", "P" >>
kwUPDATE == << "U", "P", "D", "A", "T", "E" >>

Completions ==
    { None,
      Fence \o << "s", "q", "l", "\n" >> \o kwSELECT \o << " ", "A", ";", "\n" >> \o Fence,
      << "O", "k", "!", " " >> \o kwSELECT \o << " ", "A" >>,
      kwDROP \o << " ", "T", ";" >>,
      kwSELECT \o << " " >> \o kwUPDATE \o << "D", "_", "A", "T" >>,
      kwCREATE \o << " ", "T" >>,
      kwCREATE \o << "\t", "T" >>,
      << "c", "r", "e", "a", "t", "e", "\n", "T" >>,
      Fence \o << "d", "r", "o", "p", " ", "T" >> \o Fence \o << " " >> \o kwSELECT \o << " ", "A" >> }

(***************************************************************************)
(* The script.                                                             *)
(***************************************************************************)
Terminal == { "Rejected", "Rendered", "Errored" }

Init ==
    /\ pc = "Boot"
    /\ cache = [valid |-> FALSE, value |-> [tables |-> << >>, columns |-> << >>]]
    /\ tables_df = << >>
    /\ columns_df = << >>
    /\ available_objects = << >>
    /\ schema_description = << >>
    /\ idx = 0
    /\ user_query = << >>
    /\ prompt = << >>
    /\ raw_response = << >>
    /\ sql_text = << >>
    /\ forbidden = FALSE
    /\ executed = << >>
    /\ messages = << >>
    /\ rendered = FALSE
    /\ trace = << >>

\* the user submits the text input: streamlit runs the script again from the top
Rerun ==
    /\ pc \in Terminal \/ (pc = "Idle" /\ user_query = << >>)
    /\ \E q \in Questions : user_query' = q
    /\ pc' = "Boot"
    /\ tables_df' = << >>
    /\ columns_df' = << >>
    /\ available_objects' = << >>
    /\ schema_description' = << >>
    /\ idx' = 0
    /\ prompt' = << >>
    /\ raw_response' = << >>
    /\ sql_text' = << >>
    /\ forbidden' = FALSE
    /\ executed' = << >>
    /\ messages' = << >>
    /\ rendered' = FALSE
    /\ trace' = << >>
    /\ UNCHANGED cache

\* the ttl of the cached get_schema_info result runs out
CacheExpire ==
    /\ cache.valid
    /\ cache' = [cache EXCEPT !.valid = FALSE]
    /\ UNCHANGED << pc, tables_df, columns_df, available_objects, schema_description,
                    idx, user_query, prompt, raw_response, sql_text, forbidden,
                    executed, messages, rendered, trace >>

\* lines 32-36 with the frames get_schema_info returned
LoadSchema(c) ==
    /\ tables_df' = c.tables
    /\ columns_df' = c.columns
    /\ available_objects' = (IF c.tables # << >> THEN c.tables ELSE << >>)
    /\ schema_description' = << >>
    /\ idx' = 0
    /\ pc' = "Build"
    /\ UNCHANGED << user_query, prompt, raw_response, sql_text, forbidden,
                    executed, messages, rendered, trace >>

GetSchemaCached ==
    /\ pc = "Boot"
    /\ cache.valid
    /\ LoadSchema(cache.value)
    /\ UNCHANGED cache

GetSchemaFetch ==
    /\ pc = "Boot"
    /\ ~cache.valid
    /\ \E c \in Catalogs :
         /\ cache' = [valid |-> TRUE, value |-> c]
         /\ LoadSchema(c)

\* the except branch without line 45
SchemaExceptKeepsDescription ==
    /\ messages' = Append(messages, "Could not fetch schema")
    /\ available_objects' = << >>
    /\ pc' = "Idle"
    /\ trace' = << "Idle" >>
    /\ UNCHANGED << cache, tables_df, columns_df, schema_description, idx, user_query,
                    prompt, raw_response, sql_text, forbidden, executed, rendered >>

\* the except branch of lines 42-45
SchemaExcept ==
    /\ messages' = Append(messages, "Could not fetch schema")
    /\ available_objects' = << >>
    /\ schema_description' = << >>
    /\ pc' = "Idle"
    /\ trace' = << "Idle" >>
    /\ UNCHANGED << cache, tables_df, columns_df, idx, user_query, prompt,
                    raw_response, sql_text, forbidden, executed, rendered >>

\* a metadata query of get_schema_info raises
GetSchemaFail ==
    /\ pc = "Boot"
    /\ ~cache.valid
    /\ SchemaExcept

\* one iteration of the loop of lines 37-40
BuildStep ==
    /\ pc = "Build"
    /\ idx < Len(available_objects)
    /\ schema_description' =
         schema_description \o SchemaLine(available_objects[idx + 1], columns_df)
    /\ idx' = idx + 1
    /\ UNCHANGED << pc, cache, tables_df, columns_df, available_objects, user_query,
                    prompt, raw_response, sql_text, forbidden, executed, messages,
                    rendered, trace >>

\* an iteration of the loop raises
BuildFail ==
    /\ pc = "Build"
    /\ idx < Len(available_objects)
    /\ SchemaExcept

\* the loop ends; line 58 reads the text input
BuildDone ==
    /\ pc = "Build"
    /\ idx = Len(available_objects)
    /\ pc' = "Idle"
    /\ trace' = << "Idle" >>
    /\ UNCHANGED << cache, tables_df, columns_df, available_objects,
                    schema_description, idx, user_query, prompt, raw_response,
                    sql_text, forbidden, executed, messages, rendered >>

\* line 94 and generate_sql up to line 87
BuildPrompt ==
    /\ pc = "Idle"
    /\ user_query # << >>
    /\ prompt' = BuildPromptText(user_query, schema_description)
    /\ pc' = "PromptBuilt"
    /\ trace' = Append(trace, "PromptBuilt")
    /\ UNCHANGED << cache, tables_df, columns_df, available_objects,
                    schema_description, idx, user_query, raw_response, sql_text,
                    forbidden, executed, messages, rendered >>

\* the except branch without its st.error
PipelineExceptSilent ==
    /\ messages' = messages
    /\ pc' = "Errored"
    /\ trace' = Append(trace, "Errored")

\* the except branch of lines 120-121
PipelineExcept ==
    /\ messages' = Append(messages, "Error")
    /\ pc' = "Errored"
    /\ trace' = Append(trace, "Errored")

\* lines 88-91: the completion call returns
CompleteOk ==
    /\ pc = "PromptBuilt"
    /\ \E r \in Completions : raw_response' = r
    /\ pc' = "CompletionReceived"
    /\ trace' = Append(trace, "CompletionReceived")
    /\ UNCHANGED << cache, tables_df, columns_df, available_objects,
                    schema_description, idx, user_query, prompt, sql_text,
                    forbidden, executed, messages, rendered >>

\* line 88: the completion call raises
CompleteFail ==
    /\ pc = "PromptBuilt"
    /\ PipelineExcept
    /\ UNCHANGED << cache, tables_df, columns_df, available_objects,
                    schema_description, idx, user_query, prompt, raw_response,
                    sql_text, forbidden, executed, rendered >>

\* line 92 and the assignment of line 96
Extract ==
    /\ pc = "CompletionReceived"
    /\ raw_response # None
    /\ sql_text' = extract_sql(raw_response)
    /\ pc' = "Extracted"
    /\ trace' = Append(trace, "Extracted")
    /\ UNCHANGED << cache, tables_df, columns_df, available_objects,
                    schema_description, idx, user_query, prompt, raw_response,
                    forbidden, executed, messages, rendered >>

\* line 92 on a completion that is no string: re.search raises TypeError
ExtractFail ==
    /\ pc = "CompletionReceived"
    /\ raw_response = None
    /\ PipelineExcept
    /\ UNCHANGED << cache, tables_df, columns_df, available_objects,
                    schema_description, idx, user_query, prompt, raw_response,
                    sql_text, forbidden, executed, rendered >>

\* the safety check with the query call outside the else branch
SafetyCheckFallsThrough ==
    /\ pc = "Extracted"
    /\ forbidden' = IsForbidden(sql_text)
    /\ messages' = (IF forbidden'
                      THEN Append(messages, "Generated SQL contains write operations. Aborting.")
                      ELSE messages)
    /\ executed' = Append(executed, sql_text)
    /\ pc' = "Executing"
    /\ trace' = Append(trace, "Executing")
    /\ UNCHANGED << cache, tables_df, columns_df, available_objects,
                    schema_description, idx, user_query, prompt, raw_response,
                    sql_text, rendered >>

\* lines 101-106: the safety check, then the abort or the query call
SafetyCheck ==
    /\ pc = "Extracted"
    /\ forbidden' = IsForbidden(sql_text)
    /\ IF forbidden'
         THEN /\ messages' = Append(messages, "Generated SQL contains write operations. Aborting.")
              /\ executed' = executed
              /\ pc' = "Rejected"
              /\ trace' = Append(trace, "Rejected")
         ELSE /\ executed' = Append(executed, sql_text)
              /\ messages' = messages
              /\ pc' = "Executing"
              /\ trace' = Append(trace, "Executing")
    /\ UNCHANGED << cache, tables_df, columns_df, available_objects,
                    schema_description, idx, user_query, prompt, raw_response,
                    sql_text, rendered >>

\* lines 106-118: the query returns and the result is displayed
ExecOk ==
    /\ pc = "Executing"
    /\ rendered' = TRUE
    /\ pc' = "Rendered"
    /\ trace' = Append(trace, "Rendered")
    /\ UNCHANGED << cache, tables_df, columns_df, available_objects,
                    schema_description, idx, user_query, prompt, raw_response,
                    sql_text, forbidden, executed, messages >>

\* a failed query sent back to the safety check for another attempt
ExecFailRetries ==
    /\ pc = "Executing"
    /\ Len(executed) < 2
    /\ pc' = "Extracted"
    /\ trace' = Append(trace, "Extracted")
    /\ UNCHANGED << cache, tables_df, columns_df, available_objects,
                    schema_description, idx, user_query, prompt, raw_response,
                    sql_text, forbidden, executed, messages, rendered >>

\* line 106: the query raises
ExecFail ==
    /\ pc = "Executing"
    /\ PipelineExcept
    /\ UNCHANGED << cache, tables_df, columns_df, available_objects,
                    schema_description, idx, user_query, prompt, raw_response,
                    sql_text, forbidden, executed, rendered >>

Next ==
    \/ Rerun
    \/ CacheExpire
    \/ GetSchemaCached
    \/ GetSchemaFetch
    \/ GetSchemaFail
    \/ BuildStep
    \/ BuildFail
    \/ BuildDone
    \/ BuildPrompt
    \/ CompleteOk
    \/ CompleteFail
    \/ Extract
    \/ ExtractFail
    \/ SafetyCheck
    \/ ExecOk
    \/ ExecFail

Spec == Init /\ [][Next]_vars

(***************************************************************************)
(* extract_sql and the safety check on their own: the script placed after  *)
(* the completion call with a completion built from up to MaxChunks pieces.*)
(***************************************************************************)
RECURSIVE ChunkStrings(_, _)
ChunkStrings(chunks, n) ==
    IF n = 0 THEN { << >> }
    ELSE LET shorter == ChunkStrings(chunks, n - 1)
         IN  shorter \cup { c \o t : c \in chunks, t \in shorter }

ExtractChunks ==
    { Fence,
      << "S", "q", "l" >>,
      kwSELECT,
      << "s", "e", "L", "e", "c", "t", "\n" >>,
      << " " >>,
      << "A" >>,
      << ";" >> }

RawInputs == ChunkStrings(ExtractChunks, MaxChunks) \cup Completions

EmptyCatalog == [tables |-> << >>, columns |-> << >>]

\* the state of a run on an empty catalog at the given position
MidRun(stage, stages) ==
    /\ pc = stage
    /\ trace = stages
    /\ cache = [valid |-> TRUE, value |-> EmptyCatalog]
    /\ tables_df = << >>
    /\ columns_df = << >>
    /\ available_objects = << >>
    /\ idx = 0
    /\ forbidden = FALSE
    /\ executed = << >>
    /\ messages = << >>
    /\ rendered = FALSE

InitExtract ==
    /\ MidRun("CompletionReceived", << "Idle", "PromptBuilt", "CompletionReceived" >>)
    /\ schema_description = << >>
    /\ user_query = << "Q" >>
    /\ prompt = BuildPromptText(user_query, schema_description)
    /\ raw_response \in RawInputs
    /\ sql_text = << >>

NextExtract ==
    \/ Extract
    \/ ExtractFail
    \/ SafetyCheck

SpecExtract == InitExtract /\ [][NextExtract]_vars

StmtChunks ==
    { << "I","N","S","E","R","T" >>,
      kwUPDATE,
      << "D","E","L","E","T","E" >>,
      kwDROP,
      << "A","L","T","E","R" >>,
      kwCREATE,
      << "c","r","e","a","t","e" >>,
      << "d","R","o","p" >>,
      << " " >>,
      << "\t" >>,
      << "D", "_", "A", "T" >>,
      << "E" >> }

UpdatedAtStatement ==
    kwSELECT \o << " " >> \o kwUPDATE \o << "D", "_", "A", "T", " ", "F", "R", "O", "M", " ", "L", "O", "G" >>

\* extract_sql returns stripped text only
Statements ==
    { s \in ChunkStrings(StmtChunks, MaxStmtChunks) : s = strip(s) }
    \cup { UpdatedAtStatement }

InitGate ==
    /\ MidRun("Extracted", << "Idle", "PromptBuilt", "CompletionReceived", "Extracted" >>)
    /\ schema_description = << >>
    /\ user_query = << "Q" >>
    /\ prompt = BuildPromptText(user_query, schema_description)
    /\ sql_text \in Statements
    /\ raw_response = sql_text

NextGate == SafetyCheck

SpecGate == InitGate /\ [][NextGate]_vars

(***************************************************************************)
(* The prompt builder on its own: the script at the text input with a      *)
(* question and a table name built from up to MaxTextChunks pieces.        *)
(***************************************************************************)
TextChunks == { << "'" >>, << "a" >> }

Texts == ChunkStrings(TextChunks, MaxTextChunks)

SchemaOf(t) == [tables |-> << t >>, columns |-> << Row(t, << "A" >>, << "N" >>) >>]

InitPrompt ==
    /\ pc = "Idle"
    /\ trace = << "Idle" >>
    /\ user_query \in Texts \ { << >> }
    /\ \E t \in Texts :
         /\ cache = [valid |-> TRUE, value |-> IF t = << >> THEN EmptyCatalog ELSE SchemaOf(t)]
         /\ tables_df = cache.value.tables
         /\ columns_df = cache.value.columns
         /\ available_objects = tables_df
         /\ idx = Len(available_objects)
         /\ schema_description = (IF t = << >> THEN << >> ELSE SchemaLine(t, columns_df))
    /\ prompt = << >>
    /\ raw_response = << >>
    /\ sql_text = << >>
    /\ forbidden = FALSE
    /\ executed = << >>
    /\ messages = << >>
    /\ rendered = FALSE

NextPrompt == BuildPrompt

SpecPrompt == InitPrompt /\ [][NextPrompt]_vars

(***************************************************************************)
(* Vocabulary of the properties, stated without the operators above.       *)
(***************************************************************************)
LowerChar(c) ==
    IF \E i \in 1..26 : UpperCase[i] = c
      THEN LowerCase[CHOOSE i \in 1..26 : UpperCase[i] = c]
      ELSE c

\* word occurs in s at position i, in any letter case
WordAt(s, i, word) ==
    /\ i >= 1
    /\ i + Len(word) - 1 <= Len(s)
    /\ \A j \in 1..Len(word) : s[i + j - 1] \in { word[j], LowerChar(word[j]) }

DenyList ==
    { << "I","N","S","E","R","T" >>, << "U","P","D","A","T","E" >>,
      << "D","E","L","E","T","E" >>, << "D","R","O","P" >>,
      << "A","L","T","E","R" >>, << "C","R","E","A","T","E"," " >> }

ContainsDenied(s) == \E w \in DenyList : \E i \in 1..Len(s) : WordAt(s, i, w)

WriteKeywords ==
    { << "I","N","S","E","R","T" >>, << "U","P","D","A","T","E" >>,
      << "D","E","L","E","T","E" >>, << "D","R","O","P" >>,
      << "A","L","T","E","R" >>, << "C","R","E","A","T","E" >> }

BeginsWithWriteKeyword(s) ==
    \E w \in WriteKeywords :
        /\ WordAt(s, 1, w)
        /\ Len(s) = Len(w) \/ s[Len(w) + 1] \in Whitespace

\* t is s without its leading and trailing whitespace
IsTrimOf(t, s) ==
    /\ t = << >> \/ (t[1] \notin Whitespace /\ t[Len(t)] \notin Whitespace)
    /\ \E a \in 0..Len(s) :
         /\ a + Len(t) <= Len(s)
         /\ SubSeq(s, a + 1, a + Len(t)) = t
         /\ \A k \in (1..a) \cup ((a + Len(t) + 1)..Len(s)) : s[k] \in Whitespace

IsFence(r, i) ==
    i >= 1 /\ i + 2 <= Len(r) /\ \A k \in i..(i + 2) : r[k] = Backtick

\* the opening fences that some later fence closes
OpenFences(r) == { i \in 1..Len(r) : IsFence(r, i) /\ \E c \in (i + 3)..Len(r) : IsFence(r, c) }

HasFencedBlock(r) == OpenFences(r) # {}

Least(S) == CHOOSE x \in S : \A y \in S : x <= y

\* what stands between the first opening fence and the fence closing it,
\* without the sql tag
FirstBlockInner(r) ==
    LET open == Least(OpenFences(r))
        close == Least({ c \in (open + 3)..Len(r) : IsFence(r, c) })
        body == SubSeq(r, open + 3, close - 1)
    IN  IF WordAt(body, 1, << "S", "Q", "L" >>) THEN SubSeq(body, 4, Len(body)) ELSE body

SelectStarts(r) ==
    { i \in 1..Len(r) : WordAt(r, i, << "S","E","L","E","C","T" >>)
                        /\ i + 6 <= Len(r) /\ r[i + 6] \in Whitespace }

HasTrailingSelect(r) == SelectStarts(r) # {}

Extracted == pc \in { "Extracted", "Rejected", "Executing" }

DropStatement == << "D", "R", "O", "P", " ", "T", ";" >>

StagePaths ==
    { << "Idle", "PromptBuilt", "CompletionReceived", "Extracted", "Rejected" >>,
      << "Idle", "PromptBuilt", "CompletionReceived", "Extracted", "Executing", "Rendered" >>,
      << "Idle", "PromptBuilt", "CompletionReceived", "Extracted", "Executing", "Errored" >> }

EarlyErrorPaths ==
    { << "Idle", "PromptBuilt", "Errored" >>,
      << "Idle", "PromptBuilt", "CompletionReceived", "Errored" >> }

IsPrefixOfOne(t, paths) ==
    \E p \in paths : Len(t) <= Len(p) /\ SubSeq(p, 1, Len(t)) = t

InSubmission == pc \notin { "Boot", "Build" }

\* the warehouse reading of a quoted literal: each doubled quote is one quote
RECURSIVE Unescape(_)
Unescape(s) ==
    IF s = << >> THEN << >>
    ELSE IF Len(s) >= 2 /\ s[1] = "'" /\ s[2] = "'"
      THEN << "'" >> \o Unescape(SubSeq(s, 3, Len(s)))
      ELSE << s[1] >> \o Unescape(Tail(s))

SchemaFailed == \E k \in 1..Len(messages) : messages[k] = "Could not fetch schema"

(***************************************************************************)
(* The properties.                                                         *)
(***************************************************************************)

\* C1: the query call of line 106 is made only when the safety check found
\* nothing forbidden, it is made once, with exactly the extracted statement;
\* a rejected statement is never executed and nothing of it is displayed.
C1_ExecutionOnlyWhenAllowed ==
    /\ Len(executed) <= 1
    /\ executed # << >> =>
         /\ pc \in { "Executing", "Rendered", "Errored" }
         /\ ~forbidden
         /\ ~IsForbidden(sql_text)
         /\ executed[1] = sql_text
    /\ (forbidden \/ pc = "Rejected") => (executed = << >> /\ ~rendered)
    /\ pc = "Rejected" => (forbidden /\ IsForbidden(sql_text))

C1_Witness == pc = "Rendered" /\ executed = << sql_text >> /\ sql_text # << >>

\* C2: the decision of the safety check is a function of the statement: it
\* rejects exactly the statements that hold a token of the deny list in any
\* letter case; SELECT UPDATED_AT FROM LOG is rejected.
C2_GateIsDenyList ==
    pc \in { "Rejected", "Executing" } =>
        /\ forbidden <=> ContainsDenied(sql_text)
        /\ (pc = "Rejected") <=> forbidden
        /\ sql_text = UpdatedAtStatement => pc = "Rejected"

C2_Witness ==
    /\ pc = "Rejected"
    /\ \E i \in 1..Len(sql_text) : LowerChar(sql_text[i]) = sql_text[i] /\ UpperChar(sql_text[i]) # sql_text[i]
    /\ ~Contains(sql_text, << " " >>)

\* C3: a statement that begins with INSERT, UPDATE, DELETE, DROP, ALTER or
\* CREATE (any case, followed by whitespace or by nothing) is never handed to
\* the query call.
C3_WriteStatementNeverExecuted ==
    BeginsWithWriteKeyword(sql_text) => executed = << >>

\* C4: when the completion holds a fenced block, the extracted statement is
\* the content of the first block (without the sql tag), trimmed, whatever
\* stands outside the fence.
C4_FencedBlockWins ==
    (Extracted /\ HasFencedBlock(raw_response)) =>
        IsTrimOf(sql_text, FirstBlockInner(raw_response))

C4_Witness ==
    /\ pc = "Extracted"
    /\ HasFencedBlock(raw_response)
    /\ HasTrailingSelect(raw_response)
    /\ raw_response[1] # Backtick
    /\ sql_text # << >>

\* C5: when the completion holds no fenced block and a SELECT followed by
\* whitespace, the extracted statement is the text from the first such SELECT
\* to the end, trimmed; what stands before it is dropped.
C5_TrailingSelect ==
    (Extracted /\ ~HasFencedBlock(raw_response) /\ HasTrailingSelect(raw_response)) =>
        IsTrimOf(sql_text,
                 SubSeq(raw_response, Least(SelectStarts(raw_response)), Len(raw_response)))

C5_Witness ==
    /\ pc = "Extracted"
    /\ ~HasFencedBlock(raw_response)
    /\ Cardinality(SelectStarts(raw_response)) = 2
    /\ Least(SelectStarts(raw_response)) > 1
    /\ Len(sql_text) < Len(raw_response) - Least(SelectStarts(raw_response)) + 1

\* C6: when the completion holds neither a fenced block nor such a SELECT,
\* the extracted statement is the whole completion, trimmed; DROP T; comes
\* out unchanged and is rejected.
C6_IdentityFallback ==
    /\ (Extracted /\ ~HasFencedBlock(raw_response) /\ ~HasTrailingSelect(raw_response)) =>
          IsTrimOf(sql_text, raw_response)
    /\ (Extracted /\ raw_response = DropStatement) =>
          (sql_text = DropStatement /\ pc # "Executing")

C6_Witness ==
    /\ pc = "Rejected"
    /\ raw_response = DropStatement
    /\ sql_text = DropStatement

\* C7 as stated: the stages of a submission follow Idle, PromptBuilt,
\* CompletionReceived, Extracted, then Rejected or Executing, then Rendered
\* or Errored, and Errored is entered from Executing only.
C7_StagesAsStated ==
    InSubmission => IsPrefixOfOne(trace, StagePaths)

\* C7 amended: the same, except that Errored is also entered from PromptBuilt
\* (the completion call raises) and from CompletionReceived (the completion
\* is no string); each stage occurs once, in order, a stage that is not
\* terminal can always continue, and a finished run can be followed by a new
\* one.
C7_StagesWithEarlyErrors ==
    InSubmission =>
        /\ IsPrefixOfOne(trace, StagePaths \cup EarlyErrorPaths)
        /\ trace # << >>
        /\ trace[Len(trace)] = pc
        /\ pc \in { "PromptBuilt", "CompletionReceived", "Extracted", "Executing" } =>
              ENABLED (CompleteOk \/ CompleteFail \/ Extract \/ ExtractFail
                       \/ SafetyCheck \/ ExecOk \/ ExecFail)
        /\ pc \in Terminal => ENABLED Rerun

C7_Witness ==
    /\ pc = "Errored"
    /\ trace = << "Idle", "PromptBuilt", "CompletionReceived", "Extracted", "Executing", "Errored" >>

\* C8: a failed completion call or a failed query ends the submission with an
\* error message: after a failed completion nothing is extracted, checked or
\* executed; after a failed query nothing is displayed and the statement was
\* handed over once, unchanged; a new submission can follow.
C8_FailuresAreReported ==
    pc = "Errored" =>
        /\ messages # << >>
        /\ messages[Len(messages)] = "Error"
        /\ ~rendered
        /\ ENABLED Rerun
        /\ Len(trace) <= 4 =>
              (sql_text = << >> /\ ~forbidden /\ executed = << >>)
        /\ Len(trace) > 4 => executed = << sql_text >>

C8_Witness ==
    /\ pc = "Errored"
    /\ executed # << >>
    /\ Len(messages) = 2

\* C9: when the schema bootstrap failed, the table list and the schema
\* description are empty from then on, and a question still gets its prompt,
\* with no table in it, and its completion call.
C9_SchemaFailureDegrades ==
    SchemaFailed =>
        /\ InSubmission
        /\ available_objects = << >>
        /\ schema_description = << >>
        /\ (pc = "Idle" /\ user_query # << >>) => ENABLED BuildPrompt
        /\ prompt # << >> => prompt[2] = << >>
        /\ pc = "PromptBuilt" => ENABLED CompleteOk

C9_Witness ==
    /\ SchemaFailed
    /\ idx >= 1
    /\ pc = "CompletionReceived"

\* C10: in the prompt, the escaped question and the escaped schema
\* description give back the question and the schema description when each
\* doubled quote is read as one quote.
C10_EscapeRoundTrip ==
    pc = "PromptBuilt" =>
        /\ Unescape(prompt[2]) = schema_description
        /\ Unescape(prompt[4]) = user_query

C10_Witness ==
    /\ pc = "PromptBuilt"
    /\ Contains(user_query, << "'", "'", "a", "'" >>)
    /\ Contains(schema_description, << "'", "'" >>)

====
